---- MODULE Spec2Model ----
(***************************************************************************)
(* A model of biolink_mcp: the retrying HTTP transport (http.py), the      *)
(* category normalizer (mappers.py) and the paginating association client  *)
(* (client.py).                                                            *)
(*                                                                         *)
(* Three specifications share the module:                                  *)
(*   SpecHttp   one Http instance serving get() calls and close()          *)
(*   SpecAssoc  one BiolinkClient.associations call against a backend      *)
(*   SpecShape  the row shaping functions applied to one raw row           *)
(* Each specification pins the variables of the other two.                 *)
(***************************************************************************)
EXTENDS Integers, Sequences, FiniteSets, TLC

VARIABLES
    \* ---- Http (http.py) ----
    retries,      \* Http.retries
    backoff_s,    \* Http.backoff_s, in units of a quarter second (0.75 s = 3)
    session,      \* Http._session: "none" | "open" | "closed"
    hpc,          \* position of the get() coroutine
    resp,         \* resp.status of the response whose body get() is reading (0: none)
    attempt,      \* loop variable of the retry loop
    last_exc,     \* local last_exc of get()
    hlog,         \* what the current get() call did: requests and sleeps, in order
    hres,         \* outcome of the current get() call
    opened,       \* how many ClientSession objects this Http has created
    live,         \* the created sessions that are open (numbered 1..opened)
    last_call,    \* the method of Http that took the last step: "get" | "close"
    backoff_close \* the attempt of the current get() during whose backoff a
                  \* close() last ran to completion (0: none did)

VARIABLES
    \* ---- BiolinkClient.associations (client.py) and its backend ----
    data,         \* the rows the backend holds for the requested path, in order
    style,        \* the shape of the backend's page payloads
    args,         \* the arguments of the associations call
    apc,          \* position of the associations coroutine
    items,        \* local items: the accumulator, as it leaves the loop
    seen,         \* local seen
    cur_offset,   \* local cur_offset
    per_page,     \* local per_page
    reqs,         \* the page requests the call made, in order
    ares          \* outcome of the call

VARIABLES
    \* ---- row shaping (client.py) ----
    srow,         \* a raw association row
    spc,          \* "raw" before shaping, "done" after
    sout          \* what associations(compact=True) makes of the row

VARIABLES
    \* ---- BiolinkTools.health_check (tools_core.py) ----
    tpc,          \* position of the health_check coroutine
    now,          \* time.perf_counter(), in hundredths of a millisecond
    t0,           \* local t0
    tres          \* what health_check returned

VARIABLES
    \* ---- BiolinkAPIWrapper.normalize_id (biolink_wrapper.py) ----
    nresp,        \* what the search request of the call meets
    npc,          \* "call" before normalize_id ran, "done" after
    nres          \* outcome of normalize_id

VARIABLES
    \* ---- canonical_category and the associations path (mappers.py, client.py) ----
    cval,         \* the category argument, a string as its sequence of characters
    cid,          \* the entity id argument
    cpc,          \* "in", then "once"/"twice" (canonical_category applied), or "path"
    cout1,        \* canonical_category(cval)
    cout2,        \* canonical_category(cout1)
    cpath         \* the path associations requests

VARIABLES
    \* ---- two associations calls on one client (client.py, http.py) ----
    tasks,        \* per call: its arguments, its locals and where it is suspended
    backend,      \* the rows the backend holds under each path
    wire          \* the requests in the order the backend receives them

httpVars == <<retries, backoff_s, session, hpc, resp, attempt, last_exc, hlog, hres,
              opened, live, last_call, backoff_close>>
assocVars == <<data, style, args, apc, items, seen, cur_offset, per_page, reqs, ares>>
shapeVars == <<srow, spc, sout>>
healthVars == <<tpc, now, t0, tres>>
normVars == <<nresp, npc, nres>>
catVars == <<cval, cid, cpc, cout1, cout2, cpath>>
concVars == <<tasks, backend, wire>>
vars == <<httpVars, assocVars, shapeVars, healthVars, normVars, catVars, concVars>>

\* what the actions of one component leave alone
notHttp == <<assocVars, shapeVars, healthVars, normVars, catVars, concVars>>
notAssoc == <<httpVars, shapeVars, healthVars, normVars, catVars, concVars>>
notShape == <<httpVars, assocVars, healthVars, normVars, catVars, concVars>>
notHttpHealth == <<assocVars, shapeVars, normVars, catVars, concVars>>
notNorm == <<httpVars, assocVars, shapeVars, healthVars, catVars, concVars>>
notHealth == <<httpVars, assocVars, shapeVars, normVars, catVars, concVars>>
notCat == <<httpVars, assocVars, shapeVars, healthVars, normVars, concVars>>
notHttpConc == <<assocVars, shapeVars, healthVars, normVars, catVars>>
notConc == <<httpVars, assocVars, shapeVars, healthVars, normVars, catVars>>

----------------------------------------------------------------------------
(* Bounds *)

MaxRetries == 3
\* how many sessions one Http may create in a run
MaxSessions == 2
\* how far the clock of a health check runs
MaxClock == 2
\* longest result list of a search response
MaxItems == 2
\* most characters of an alias a category argument alters
MaxEdits == 2
\* most rows the backend holds under one path when two calls share the client
MaxConcRows == 2
\* longest small dataset of the backend
MaxRows == 4
\* largest small max_items argument
MaxMaxItems == 2
\* the large dataset and the large max_items of the spec's pagination examples
BulkRows == 237
BulkMaxItems == 50

----------------------------------------------------------------------------
(* Http: values *)

\* Python None where a string is expected
Null == "<None>"

\* a response body whose decoding fails in resp.text() (not valid text)
BadBytes == "<undecodable>"

\* Configurations of Http(...): retries and backoff_s (quarter seconds)
RetriesRange == 0..MaxRetries
Backoffs == {1, 3}

\* status codes the fake server answers with
OkStatuses == {200, 204}
ErrStatuses == {304, 404, 429, 500, 502, 503, 504}
OkTexts == {"", "{}", "{\"a\": 1}", "[1]", "oops", BadBytes}

\* what one attempt meets. Either session.get (line 55) fails in the network
\* layer (k the exception's type, text its message, no response), or it
\* yields a response with a status, and then resp.text() (lines 58, 68, 72)
\* either yields the body text (read "ok"; the text BadBytes stands for bytes
\* that do not decode) or fails in the network layer (read the exception's
\* type, text its message; the fake server breaks off the body of a 200 and
\* of a 503)
Outcomes ==
    [k : {"http"}, status : OkStatuses, read : {"ok"}, text : OkTexts]
      \cup [k : {"http"}, status : ErrStatuses, read : {"ok"}, text : {"err", BadBytes}]
      \cup [k : {"http"}, status : {200, 503},
            read : {"ClientPayloadError"}, text : {"cut"}]
      \cup [k : {"http"}, status : {200, 503},
            read : {"TimeoutError"}, text : {""}]
      \cup [k : {"ClientError"}, status : {0}, read : {"none"}, text : {"boom"}]
      \cup [k : {"TimeoutError"}, status : {0}, read : {"none"}, text : {""}]

NoExc == [type |-> "NoneType", status |-> 0, detail |-> ""]

BiolinkHTTPError(status, detail) ==
    [type |-> "BiolinkHTTPError", status |-> status, detail |-> detail]

\* an exception raised outside Http.get, identified by its type
OtherError(type) == [type |-> type, status |-> 0, detail |-> ""]

\* an exception of the given type whose str() is msg
ErrorWith(type, msg) == [type |-> type, status |-> 0, detail |-> msg]

\* str() of the UnicodeDecodeError that resp.text() raises on the body
\* BadBytes (the byte 0xff under UTF-8)
DecodeErrorMessage ==
    "'utf-8' codec can't decode byte 0xff in position 0: invalid start byte"

\* str(last_exc) on line 84, where last_exc is None or an exception that is
\* no BiolinkHTTPError
StrOfLastExc(e) == IF e.type = "NoneType" THEN "None" ELSE e.detail

NoResult == [kind |-> "none", val |-> [t |-> "none", size |-> 0, raw |-> ""], exc |-> NoExc]
Returned(v) == [kind |-> "ret", val |-> v, exc |-> NoExc]
Raised(e) == [kind |-> "exc", val |-> [t |-> "none", size |-> 0, raw |-> ""], exc |-> e]

\* json.loads on the body texts the fake server sends: the decoded value is
\* a mapping or a list of `size` entries; "oops" is not JSON
IsJson(text) == text \in {"{}", "{\"a\": 1}", "[1]"}

json_loads(text) ==
    CASE text = "{}" -> [t |-> "map", size |-> 0, raw |-> ""]
      [] text = "{\"a\": 1}" -> [t |-> "map", size |-> 1, raw |-> ""]
      [] text = "[1]" -> [t |-> "list", size |-> 1, raw |-> ""]

\* lines 58-65: empty text -> {}, JSON -> decoded, else {"raw": text}
DecodeBody(text) ==
    IF text = "" THEN [t |-> "map", size |-> 0, raw |-> ""]
    ELSE IF IsJson(text) THEN json_loads(text)
    ELSE [t |-> "map", size |-> 1, raw |-> text]

\* line 67: the statuses get() calls retryable
RETRYABLE == {429, 500, 502, 503, 504}

IsSuccess(status) == 200 <= status /\ status < 300

\* line 74: the exception types the except clause of the retry loop catches
\* (ClientPayloadError is a subclass of aiohttp.ClientError)
Caught(type) ==
    type \in {"ClientError", "ClientPayloadError", "TimeoutError", "BiolinkHTTPError"}

\* line 76: another attempt follows this one
MoreAttempts(a, r) == a < r

\* line 77: the backoff before the next attempt
BackoffDelay(b, a) == b * a

\* what the body of the try block raises for an outcome that does not
\* return: the failure of session.get or of resp.text(), the decoding error
\* of resp.text(), or the error of lines 70 and 73 (every text of the model
\* is shorter than 300 characters, so [:300] keeps it whole)
ExcOf(o) ==
    IF o.k # "http" THEN ErrorWith(o.k, o.text)                 \* line 55
    ELSE IF o.read # "ok" THEN ErrorWith(o.read, o.text)        \* lines 58, 68, 72
    ELSE IF o.text = BadBytes
         THEN ErrorWith("UnicodeDecodeError", DecodeErrorMessage)
    ELSE IF o.status \in RETRYABLE
         THEN BiolinkHTTPError(o.status, o.text)                \* line 70
         ELSE BiolinkHTTPError(o.status, o.text)                \* line 73

\* lines 82-84: what get() raises once the loop is over
Exhausted_Reraise(e) == e
Exhausted(e) ==
    IF e.type = "BiolinkHTTPError" THEN e
    ELSE BiolinkHTTPError(599, e.type \o ": " \o StrOfLastExc(e))

\* entries of hlog: a request with what answered it, or a sleep and its length
ReqEvent(o) ==
    [e |-> "req", n |-> o.status, x |-> o.k, read |-> o.read, text |-> o.text]
SleepEvent(d) == [e |-> "sleep", n |-> d, x |-> "", read |-> "", text |-> ""]

----------------------------------------------------------------------------
(* Python values of a row: None, a string, an integer, or a mapping with   *)
(* the keys id and label (either may be missing: Null)                     *)

VNone == [t |-> "none", s |-> "", n |-> 0, id |-> Null, label |-> Null]
VStr(x) == [t |-> "str", s |-> x, n |-> 0, id |-> Null, label |-> Null]
VInt(k) == [t |-> "int", s |-> "", n |-> k, id |-> Null, label |-> Null]
VMap(i, l) == [t |-> "map", s |-> "", n |-> 0, id |-> i, label |-> l]
EmptyMap == VMap(Null, Null)

\* Python truth value: None, "", 0 and {} are false
Truthy(v) ==
    CASE v.t = "none" -> FALSE
      [] v.t = "str" -> v.s # ""
      [] v.t = "int" -> v.n # 0
      [] v.t = "map" -> v.id # Null \/ v.label # Null

\* a or b
PyOr(a, b) == IF Truthy(a) THEN a ELSE b

\* m.get(key) on a mapping value
MapGet(m, key) ==
    LET x == IF key = "id" THEN m.id ELSE m.label
    IN IF x = Null THEN VNone ELSE VStr(x)

ShapedKeys == {"subject_id", "subject_label", "predicate", "object_id",
               "object_label", "evidence_count", "source"}

----------------------------------------------------------------------------
(* client.py: helpers *)

\* lines 11-12
strip_nones_Keep(d) == d
strip_nones(d) == [k \in {j \in DOMAIN d : d[j].t # "none"} |-> d[k]]

\* lines 98-112. subj.get / obj.get need a mapping: on any other true value
\* (a string id) the attribute lookup raises AttributeError
shape_assoc(r) ==
    LET subj == PyOr(r.subject, EmptyMap)
        obj == PyOr(r.object, EmptyMap)
    IN IF subj.t # "map" \/ obj.t # "map"
       THEN [err |-> TRUE, d |-> [k \in {} |-> VNone]]
       ELSE [err |-> FALSE,
             d |-> [subject_id |-> PyOr(MapGet(subj, "id"), r.subject),
                    subject_label |-> PyOr(MapGet(subj, "label"), r.subject_label),
                    predicate |-> IF r.predicate.t = "map"
                                  THEN MapGet(PyOr(r.predicate, EmptyMap), "id")
                                  ELSE r.predicate,
                    object_id |-> PyOr(MapGet(obj, "id"), r.object),
                    object_label |-> PyOr(MapGet(obj, "label"), r.object_label),
                    evidence_count |-> r.evidence_count,
                    source |-> PyOr(r.aggregator_knowledge_source, r.provided_by)]]

\* line 82: the list comprehension over the filtered rows; it raises when
\* shaping any row raises
Shaped(rows) ==
    IF \E i \in 1..Len(rows) : shape_assoc(rows[i]).err
    THEN [err |-> TRUE, items |-> <<>>]
    ELSE [err |-> FALSE,
          items |-> [i \in 1..Len(rows) |-> strip_nones(shape_assoc(rows[i]).d)]]

\* line 51: the effective page size
PerPage_NoCap(limit) == IF limit > 1 THEN limit ELSE 1
PerPage(limit) ==
    LET m == IF limit < 100 THEN limit ELSE 100
    IN IF m > 1 THEN m ELSE 1

\* a[:m] of Python, for any integer m
Slice_All(a, m) == a
Slice(a, m) ==
    IF m >= 0
    THEN SubSeq(a, 1, IF m < Len(a) THEN m ELSE Len(a))
    ELSE SubSeq(a, 1, IF Len(a) + m > 0 THEN Len(a) + m ELSE 0)

\* line 60: stop condition A
StopA_ZeroIsUnset(its, max_items) ==
    max_items.t # "none" /\ max_items.n # 0 /\ Len(its) >= max_items.n
StopA(its, max_items) == max_items.t # "none" /\ Len(its) >= max_items.n

\* line 65: stop condition B
StopB_OnEmpty(rows, pp) == Len(rows) = 0
StopB_OnFullPage(rows, pp) == Len(rows) <= pp
StopB(rows, pp) == Len(rows) < pp

\* line 73: the evidence_min test of one row
KeepEvidence_Strict(r, t) == PyOr(r.evidence_count, VInt(0)).n > t
KeepEvidence(r, t) == PyOr(r.evidence_count, VInt(0)).n >= t

\* line 77: the source a row is attributed to
ResolvedSource_AggregatorOnly(r) == r.aggregator_knowledge_source
ResolvedSource(r) == PyOr(r.aggregator_knowledge_source, r.provided_by)

\* line 77: the sources test of one row (None is in no set of strings)
KeepSource(r, allowed) ==
    LET v == ResolvedSource(r) IN v.t = "str" /\ v.s \in allowed

\* lines 72-73
FilterEvidence(its, evidence_min) ==
    IF evidence_min.t # "none"
    THEN LET Keep(r) == KeepEvidence(r, evidence_min.n) IN SelectSeq(its, Keep)
    ELSE its

\* lines 75-77: `if sources:` is false for None and for an empty collection
FilterSources(its, sources) ==
    IF sources.given /\ sources.set # {}
    THEN LET Keep(r) == KeepSource(r, sources.set) IN SelectSeq(its, Keep)
    ELSE its

----------------------------------------------------------------------------
(* Strings as sequences of characters: str.strip, str.lower, str.replace, *)
(* and canonical_category over them (mappers.py lines 5-20)               *)

UpperCase ==
    <<"A","B","C","D","E","F","G","H","I","J","K","L","M","N","O","P",
       "Q","R","S","T","U","V","W","X","Y","Z">>
LowerCase ==
    <<"a","b","c","d","e","f","g","h","i","j","k","l","m","n","o","p",
       "q","r","s","t","u","v","w","x","y","z">>

\* characters str.strip() removes
Whitespace == {" ", "\t", "\n"}

\* str.lower() and str.upper() on one character
lower_char(c) ==
    IF \E i \in DOMAIN UpperCase : UpperCase[i] = c
    THEN LowerCase[CHOOSE i \in DOMAIN UpperCase : UpperCase[i] = c]
    ELSE c
upper_char(c) ==
    IF \E i \in DOMAIN LowerCase : LowerCase[i] = c
    THEN UpperCase[CHOOSE i \in DOMAIN LowerCase : LowerCase[i] = c]
    ELSE c

lower(s) == [i \in 1..Len(s) |-> lower_char(s[i])]

\* s.replace(old, new) for one-character old and new
replace(s, old, new) == [i \in 1..Len(s) |-> IF s[i] = old THEN new ELSE s[i]]

RECURSIVE lstrip(_)
lstrip(s) ==
    IF s # <<>> /\ Head(s) \in Whitespace THEN lstrip(Tail(s)) ELSE s

RECURSIVE rstrip(_)
rstrip(s) ==
    IF s # <<>> /\ s[Len(s)] \in Whitespace
    THEN rstrip(SubSeq(s, 1, Len(s) - 1))
    ELSE s

strip(s) == rstrip(lstrip(s))

PairwiseGeneToGeneInteraction ==
    <<"b","i","o","l","i","n","k",":","P","a","i","r","w","i","s","e",
       "G","e","n","e","T","o","G","e","n","e","I","n","t","e","r","a",
       "c","t","i","o","n">>

CausalGeneToDiseaseAssociation ==
    <<"b","i","o","l","i","n","k",":","C","a","u","s","a","l","G","e",
       "n","e","T","o","D","i","s","e","a","s","e","A","s","s","o","c",
       "i","a","t","i","o","n">>

GeneToPhenotypicFeatureAssociation ==
    <<"b","i","o","l","i","n","k",":","G","e","n","e","T","o","P","h",
       "e","n","o","t","y","p","i","c","F","e","a","t","u","r","e","A",
       "s","s","o","c","i","a","t","i","o","n">>


\* mappers.py lines 5-16
CATEGORY_ALIASES ==
    (<<"g","e","n","e","-","t","o","-","g","e","n","e">>
           :> PairwiseGeneToGeneInteraction)
      @@ (<<"i","n","t","e","r","a","c","t","i","o","n","s">>
           :> PairwiseGeneToGeneInteraction)
      @@ (<<"g","e","n","e","-","i","n","t","e","r","a","c","t","i","o","n",
       "s">>
           :> PairwiseGeneToGeneInteraction)
      @@ (<<"g","e","n","e","-","d","i","s","e","a","s","e","s">>
           :> CausalGeneToDiseaseAssociation)
      @@ (<<"g","e","n","e","-","t","o","-","d","i","s","e","a","s","e">>
           :> CausalGeneToDiseaseAssociation)
      @@ (<<"g","e","n","e","-","p","h","e","n","o","t","y","p","e","s">>
           :> GeneToPhenotypicFeatureAssociation)
      @@ (<<"p","h","e","n","o","t","y","p","e","-","g","e","n","e","s">>
           :> GeneToPhenotypicFeatureAssociation)

\* line 19
AliasKey_NoUnderscore(value) == replace(lower(strip(value)), " ", "-")
AliasKey(value) == replace(replace(lower(strip(value)), " ", "-"), "_", "-")

\* lines 18-20: CATEGORY_ALIASES.get(key, value)
canonical_category(value) ==
    LET key == AliasKey(value)
    IN IF key \in DOMAIN CATEGORY_ALIASES THEN CATEGORY_ALIASES[key] ELSE value

\* client.py lines 46-47: f"entity/{entity_id}/{cat}"
request_path(entity_id, category) ==
    <<"e","n","t","i","t","y","/">> \o entity_id \o <<"/">> \o canonical_category(category)

----------------------------------------------------------------------------

NoAssocResult ==
    [kind |-> "none", items |-> <<>>, count |-> 0, category |-> <<>>,
     entity_id |-> <<>>, exc |-> NoExc]

\* the call raises e
AssocRaises(e) == [NoAssocResult EXCEPT !.kind = "exc", !.exc = e]

\* lines 80 and 83: the mapping the call returns for the items it keeps
Mapping_RawCategory(its, a) ==
    [kind |-> "ret", items |-> its, count |-> Len(its), category |-> a.category,
     entity_id |-> a.entity_id, exc |-> NoExc]
Mapping(its, a) ==
    [kind |-> "ret", items |-> its, count |-> Len(its),
     category |-> canonical_category(a.category),
     entity_id |-> a.entity_id, exc |-> NoExc]

\* lines 71-83: everything after the loop
PostProcess(its, a) ==
    LET kept == FilterSources(FilterEvidence(its, a.evidence_min), a.sources)
    IN IF ~a.compact
       THEN Mapping(kept, a)
       ELSE LET sh == Shaped(kept)
            IN IF sh.err
               THEN AssocRaises(OtherError("AttributeError"))
               ELSE Mapping(sh.items, a)

----------------------------------------------------------------------------
(* The backend of the association endpoint *)

Row(subject, predicate, object, subject_label, object_label, ec, aks, pb) ==
    [subject |-> subject, object |-> object, predicate |-> predicate,
     subject_label |-> subject_label, object_label |-> object_label,
     evidence_count |-> ec, aggregator_knowledge_source |-> aks, provided_by |-> pb]

\* the rows the backend serves, one of each documented variant; the last
\* one has an empty string for its aggregator_knowledge_source
Pool ==
    << Row(VMap("A", "a"), VStr("p"), VMap("B", "b"), VNone, VNone,
           VInt(7), VStr("X"), VNone),
       Row(VMap("A2", Null), VNone, VNone, VStr("top"), VNone,
           VInt(3), VNone, VNone),
       Row(VStr("S"), VMap("q", Null), VStr("O"), VNone, VNone,
           VNone, VNone, VStr("X")),
       Row(VNone, VMap(Null, "has"), VMap(Null, "b4"), VNone, VStr("o4"),
           VInt(5), VStr("Y"), VStr("X")),
       Row(VMap("C", "c"), VStr("p"), VMap("D", "d"), VNone, VNone,
           VInt(0), VStr(""), VStr("Y")) >>

\* a dataset: `total` rows taken round the pool from position `seed`
Dataset(seed, total) ==
    [i \in 1..total |-> Pool[((seed + i - 1) % Len(Pool)) + 1]]

Styles == {"associations", "items", "nonlist"}

PNone == [t |-> "none", rows |-> <<>>]
PList(rows) == [t |-> "list", rows |-> rows]
PStr == [t |-> "str", rows |-> <<>>]

\* the decoded page the backend answers a request (offset, limit) with:
\*   "associations"  {"associations": [...]}
\*   "items"         {"associations": [], "items": [...]}
\*   "nonlist"       {"associations": "n/a"}
PageOf(d, st, offset, limit) ==
    LET hi == IF offset + limit < Len(d) THEN offset + limit ELSE Len(d)
        rows == SubSeq(d, offset + 1, hi)
    IN CASE st = "associations" -> [associations |-> PList(rows), items |-> PNone]
         [] st = "items" -> [associations |-> PList(<<>>), items |-> PList(rows)]
         [] st = "nonlist" -> [associations |-> PStr, items |-> PNone]

PTruthy(v) == (v.t = "list" /\ v.rows # <<>>) \/ v.t = "str"

\* lines 56-58
ExtractRows(page) ==
    LET v == IF PTruthy(page.associations) THEN page.associations
             ELSE IF PTruthy(page.items) THEN page.items
             ELSE PList(<<>>)
    IN IF v.t = "list" THEN v.rows ELSE <<>>

----------------------------------------------------------------------------
(* The variables of a component a specification does not exercise *)

NoArgs ==
    [entity_id |-> <<>>, category |-> <<>>,
     limit |-> 20, offset |-> 0, max_items |-> VNone, evidence_min |-> VNone,
     sources |-> [given |-> FALSE, set |-> {}], compact |-> TRUE]

HttpUnused ==
    /\ retries = 3
    /\ backoff_s = 3
    /\ session = "none"
    /\ hpc = "idle"
    /\ resp = 0
    /\ attempt = 0
    /\ last_exc = NoExc
    /\ hlog = <<>>
    /\ hres = NoResult
    /\ opened = 0
    /\ live = {}
    /\ last_call = "none"
    /\ backoff_close = 0

AssocUnused ==
    /\ data = <<>>
    /\ style = "associations"
    /\ args = NoArgs
    /\ apc = "idle"
    /\ items = <<>>
    /\ seen = 0
    /\ cur_offset = 0
    /\ per_page = 0
    /\ reqs = <<>>
    /\ ares = NoAssocResult

ShapeUnused ==
    /\ srow = Pool[1]
    /\ spc = "raw"
    /\ sout = [err |-> FALSE, items |-> <<>>]

NullTriple == [id |-> Null, full_name |-> Null, category |-> Null]

NoSearch ==
    [k |-> "http", status |-> 200, json |-> TRUE, has_items |-> FALSE, items |-> <<>>]

NormUnused ==
    /\ nresp = NoSearch
    /\ npc = "call"
    /\ nres = [kind |-> "none", triple |-> NullTriple, exc |-> NoExc]

Calls == {1, 2}
\* the paths entity/A/c and entity/B/c
PathA == <<"e", "n", "t", "i", "t", "y", "/", "A", "/", "c">>
PathB == <<"e", "n", "t", "i", "t", "y", "/", "B", "/", "c">>
Paths == {PathA, PathB}

IdleTask ==
    [path |-> <<>>, args |-> NoArgs, pc |-> "idle", items |-> <<>>, seen |-> 0,
     cur_offset |-> 0, per_page |-> 0, res |-> NoAssocResult]

ConcUnused ==
    /\ tasks = [p \in Calls |-> IdleTask]
    /\ backend = [p \in Paths |-> <<>>]
    /\ wire = <<>>

CatUnused ==
    /\ cval = <<>>
    /\ cid = <<>>
    /\ cpc = "unused"
    /\ cout1 = <<>>
    /\ cout2 = <<>>
    /\ cpath = <<>>

NoHealth == [ok |-> FALSE, latency_ms |-> 0, detail |-> ""]

HealthUnused ==
    /\ tpc = "idle"
    /\ now = 0
    /\ t0 = 0
    /\ tres = NoHealth

----------------------------------------------------------------------------
(* Http: operations *)

\* line 38: _get_session makes a new session
Creates_OnlyNone(s) == s = "none"
Creates_Always(s) == TRUE
Creates(s) == s \in {"none", "closed"}

\* lines 38-39: the sessions constructed so far, after one more _get_session()
SessionsOpened_Each(s, n) == n + 1
SessionsOpened(s, n) == IF Creates(s) THEN n + 1 ELSE n

\* lines 37-40
get_session(s) == IF Creates(s) THEN "open" ELSE s

HttpStart ==
    /\ retries \in RetriesRange
    /\ backoff_s \in Backoffs
    /\ session = "none"
    /\ hpc = "idle"
    /\ resp = 0
    /\ attempt = 0
    /\ last_exc = NoExc
    /\ hlog = <<>>
    /\ hres = NoResult
    /\ opened = 0
    /\ live = {}
    /\ last_call = "none"
    /\ backoff_close = 0

HttpInit == HttpStart /\ AssocUnused /\ ShapeUnused /\ HealthUnused /\ NormUnused /\ ConcUnused /\ CatUnused

\* get() is called: lines 48-51, up to the first attempt (or past the loop
\* when range(1, retries + 1) is empty)
GetEntry ==
    /\ hpc \in {"idle", "returned", "raised"}
    /\ last_exc' = NoExc
    /\ hlog' = <<>>
    /\ IF retries >= 1
       THEN /\ attempt' = 1
            /\ hpc' = "send"
            /\ hres' = NoResult
       ELSE /\ attempt' = 0
            /\ hpc' = "raised"
            /\ hres' = Raised(Exhausted(NoExc))
    /\ last_call' = "get"
    /\ backoff_close' = 0
    /\ UNCHANGED <<retries, backoff_s, session, resp, opened, live>>

HttpGet == GetEntry /\ UNCHANGED notHttp

\* lines 53-55: take the session and issue the request
HttpSend ==
    /\ hpc = "send"
    /\ session' = get_session(session)
    /\ opened' = SessionsOpened(session, opened)
    /\ live' = IF Creates(session) THEN live \cup {opened + 1} ELSE live
    /\ hpc' = "wait"
    /\ last_call' = "get"
    /\ UNCHANGED <<retries, backoff_s, resp, attempt, last_exc, hlog, hres,
                   backoff_close>>
    /\ UNCHANGED notHttp

\* lines 56-84 from the end of an attempt on: get() returns the decoded body
\* (a 2xx response whose body was read and decoded as text), or the
\* exception leaves get(), or the except clause takes it and get() sleeps
\* before the next attempt or raises after the last one
AttemptEnds(o) ==
    LET log1 == Append(hlog, ReqEvent(o)) IN
    IF o.k = "http" /\ IsSuccess(o.status) /\ o.read = "ok" /\ o.text # BadBytes
    THEN /\ hpc' = "returned"
         /\ hres' = Returned(DecodeBody(o.text))
         /\ hlog' = log1
         /\ UNCHANGED <<last_exc, attempt>>
    ELSE LET e == ExcOf(o) IN
         IF ~Caught(e.type)
         THEN /\ hpc' = "raised"
              /\ hres' = Raised(e)
              /\ hlog' = log1
              /\ UNCHANGED <<last_exc, attempt>>
         ELSE /\ last_exc' = e
              /\ IF MoreAttempts(attempt, retries)
                 THEN /\ hpc' = "sleep"
                      /\ hlog' = Append(log1, SleepEvent(BackoffDelay(backoff_s, attempt)))
                      /\ hres' = hres
                 ELSE /\ hpc' = "raised"
                      /\ hlog' = log1
                      /\ hres' = Raised(Exhausted(e))
              /\ UNCHANGED attempt

\* line 55: session.get is over: the response's status line has arrived and
\* get() goes on to read the body, or the request failed in the network layer
HttpRecv ==
    /\ hpc = "wait"
    /\ \E o \in Outcomes :
         IF o.k = "http"
         THEN /\ hpc' = "body"
              /\ resp' = o.status
              /\ UNCHANGED <<attempt, last_exc, hlog, hres>>
         ELSE /\ AttemptEnds(o)
              /\ resp' = resp
    /\ last_call' = "get"
    /\ UNCHANGED <<retries, backoff_s, session, opened, live, backoff_close>>
    /\ UNCHANGED notHttp

\* lines 58, 68, 72: resp.text() is over: the body of the response has
\* arrived, or reading it failed
HttpRead ==
    /\ hpc = "body"
    /\ \E o \in Outcomes :
         /\ o.k = "http"
         /\ o.status = resp
         /\ AttemptEnds(o)
    /\ resp' = 0
    /\ last_call' = "get"
    /\ UNCHANGED <<retries, backoff_s, session, opened, live, backoff_close>>
    /\ UNCHANGED notHttp

\* line 77-78: the sleep is over, the loop continues with the next attempt
HttpWake ==
    /\ hpc = "sleep"
    /\ attempt' = attempt + 1
    /\ hpc' = "send"
    /\ last_call' = "get"
    /\ UNCHANGED <<retries, backoff_s, session, resp, last_exc, hlog, hres, opened,
                   live, backoff_close>>
    /\ UNCHANGED notHttp

\* lines 42-44 (a run closes at most MaxSessions - 1 open sessions)
HttpClose ==
    /\ session = "open" => opened < MaxSessions
    /\ session' = IF session = "open" THEN "closed" ELSE session
    /\ live' = IF session = "open" THEN live \ {opened} ELSE live
    /\ last_call' = "close"
    /\ backoff_close' = IF hpc = "sleep" THEN attempt ELSE backoff_close
    /\ UNCHANGED <<retries, backoff_s, hpc, resp, attempt, last_exc, hlog, hres,
                   opened>>
    /\ UNCHANGED notHttp

HttpNext == HttpGet \/ HttpSend \/ HttpRecv \/ HttpRead \/ HttpWake \/ HttpClose

SpecHttp == HttpInit /\ [][HttpNext]_vars

----------------------------------------------------------------------------
(* BiolinkTools.health_check over the transport (tools_core.py)           *)

\* the URL of the probe: search_entities("TP53", limit=1, offset=0)
ProbeUrl == "https://api-v3.monarchinitiative.org/v3/api/search"

\* str(e): http.py line 15 for BiolinkHTTPError
ExcMessage(e) ==
    IF e.type = "BiolinkHTTPError"
    THEN ToString(e.status) \o " on " \o ProbeUrl \o ": " \o e.detail
    ELSE e.detail

\* tools_core.py line 72: `except Exception` takes every exception the probe
\* raises
HealthCatches_OnlyHttpError(type) == type = "BiolinkHTTPError"
HealthCatches(type) == TRUE

\* tools_core.py line 75 (the clock counts hundredths of a millisecond, the
\* precision round(..., 2) keeps)
LatencyMs(start, end) == end - start

\* tools_core.py lines 70-76
HealthResult(res, latency) ==
    IF res.kind = "ret"
    THEN [ok |-> TRUE, latency_ms |-> latency, detail |-> "ok"]
    ELSE [ok |-> FALSE, latency_ms |-> latency,
          detail |-> res.exc.type \o ": " \o ExcMessage(res.exc)]

HealthInit ==
    /\ HttpStart
    /\ tpc = "idle"
    /\ now = 0
    /\ t0 = 0
    /\ tres = NoHealth
    /\ AssocUnused
    /\ ShapeUnused
    /\ NormUnused
    /\ ConcUnused
    /\ CatUnused

\* tools_core.py lines 67-69, client.py line 31, http.py lines 48-51: the
\* clock is read and the probe's get() starts
HealthCall ==
    /\ tpc = "idle"
    /\ t0' = now
    /\ tpc' = "probing"
    /\ GetEntry
    /\ UNCHANGED <<now, tres>>
    /\ UNCHANGED notHttpHealth

\* time passes
HealthTick ==
    /\ now < MaxClock
    /\ now' = now + 1
    /\ UNCHANGED <<tpc, t0, tres>>
    /\ UNCHANGED notHealth

\* tools_core.py lines 70-76: the probe is over
HealthReturn ==
    /\ tpc = "probing"
    /\ hpc \in {"returned", "raised"}
    /\ IF hres.kind = "exc" /\ ~HealthCatches(hres.exc.type)
       THEN tpc' = "raised" /\ tres' = tres
       ELSE tpc' = "done" /\ tres' = HealthResult(hres, LatencyMs(t0, now))
    /\ UNCHANGED <<now, t0>>
    /\ UNCHANGED notHealth

HealthNext ==
    HealthCall \/ HttpSend \/ HttpRecv \/ HttpRead \/ HttpWake \/ HealthTick
      \/ HealthReturn

SpecHealth == HealthInit /\ [][HealthNext]_vars

\* C13: health_check never ends by raising; once the probe is over it
\* returns {ok, latency_ms, detail} with ok true and detail "ok" exactly
\* when the probe returned, ok false and a detail made of the exception's
\* type and message otherwise, and a latency that is never negative.
C13_HealthCheckNeverRaises ==
    /\ tpc # "raised"
    /\ tpc = "done" =>
          /\ tres.ok <=> hres.kind = "ret"
          /\ tres.ok <=> tres.detail = "ok"
          /\ tres.latency_ms >= 0
          /\ tres.latency_ms <= now - t0
          /\ ~tres.ok =>
                /\ tres.detail # ""
                /\ hres.exc.type = "UnicodeDecodeError"
                      => tres.detail = "UnicodeDecodeError: " \o DecodeErrorMessage
                /\ hres.exc.type = "BiolinkHTTPError" =>
                      tres.detail = "BiolinkHTTPError: " \o ToString(hres.exc.status)
                                      \o " on " \o ProbeUrl \o ": " \o hres.exc.detail

C13_Witness ==
    /\ tpc = "done"
    /\ ~tres.ok
    /\ Len(hlog) = 5
    /\ tres.latency_ms = 2
    /\ tres.detail =
         "BiolinkHTTPError: 500 on https://api-v3.monarchinitiative.org/v3/api/search: err"

----------------------------------------------------------------------------
(* BiolinkAPIWrapper.normalize_id (biolink_wrapper.py lines 78-97)        *)

\* the items of a search result: their id, full_name and category, each of
\* which may be missing
SearchItems ==
    [id : {Null, "HGNC:11998", "HGNC:1"},
     full_name : {Null, "tumor protein p53"},
     category : {Null, "biolink:Gene"}]

ItemLists == UNION {[1..n -> SearchItems] : n \in 0..MaxItems}

\* what the search request meets: a response with a status, a body that is
\* a JSON mapping (json) or has another content type than JSON, and in a
\* JSON body the "items" key (has_items) with a list, or a failure of the
\* network layer
SearchResponses ==
    [k : {"http"}, status : {200, 201, 204, 404, 500}, json : {TRUE},
     has_items : {TRUE}, items : ItemLists]
      \cup [k : {"http"}, status : {200, 201, 204, 404, 500}, json : BOOLEAN,
            has_items : {FALSE}, items : {<<>>}]
      \cup [k : {"ClientError"}, status : {0}, json : {FALSE},
            has_items : {FALSE}, items : {<<>>}]

\* line 86: the status normalize_id goes on with
StatusOk_Any(status) == TRUE
StatusOk(status) == status = 200

\* line 89: data.get("items", [])
ItemsOf(response) == IF response.has_items THEN response.items ELSE <<>>

\* lines 85-97
normalize_id(response) ==
    IF response.k # "http"
    THEN [kind |-> "exc", triple |-> NullTriple, exc |-> OtherError(response.k)]
    ELSE IF ~StatusOk(response.status)
    THEN [kind |-> "ret", triple |-> NullTriple, exc |-> NoExc]
    ELSE IF ~response.json
    THEN [kind |-> "exc", triple |-> NullTriple, exc |-> OtherError("ContentTypeError")]
    ELSE IF ItemsOf(response) = <<>>
    THEN [kind |-> "ret", triple |-> NullTriple, exc |-> NoExc]
    ELSE LET top == ItemsOf(response)[1]
         IN [kind |-> "ret",
             triple |-> [id |-> top.id, full_name |-> top.full_name,
                         category |-> top.category],
             exc |-> NoExc]

NormInit ==
    /\ nresp \in SearchResponses
    /\ npc = "call"
    /\ nres = [kind |-> "none", triple |-> NullTriple, exc |-> NoExc]
    /\ HttpUnused
    /\ AssocUnused
    /\ ShapeUnused
    /\ HealthUnused
    /\ CatUnused
    /\ ConcUnused

NormalizeId ==
    /\ npc = "call"
    /\ nres' = normalize_id(nresp)
    /\ npc' = "done"
    /\ UNCHANGED nresp
    /\ UNCHANGED notNorm

NormNext == NormalizeId

SpecNorm == NormInit /\ [][NormNext]_vars

----------------------------------------------------------------------------
(* canonical_category (mappers.py lines 5-20) and the path associations   *)
(* requests (client.py lines 46-47). A string is the sequence of its      *)
(* characters.                                                            *)

\* what an argument puts in place of one character of an alias: the other
\* letter case or another letter; for a hyphen a space, an underscore or
\* a colon
Alterations(c) == IF c = "-" THEN {" ", "_", ":"} ELSE {upper_char(c), "x"}

\* alias a with the characters at the positions of e replaced
Altered(a, e) == [i \in 1..Len(a) |-> IF i \in DOMAIN e THEN e[i] ELSE a[i]]

AlteredAliases ==
    UNION {
      UNION {
        { Altered(a, e) :
            e \in { f \in [P -> {" ", "_", ":", "x"} \cup {upper_char(a[i]) : i \in P}] :
                      \A i \in P : f[i] \in Alterations(a[i]) } }
        : P \in { Q \in SUBSET (1..Len(a)) : Cardinality(Q) <= MaxEdits } }
      : a \in DOMAIN CATEGORY_ALIASES }

\* what surrounds the argument: nothing, whitespace, or an underscore
Paddings ==
    { <<<<>>, <<>>>>, <<<<" ">>, <<>>>>, <<<<"\n">>, <<"\t", " ">>>>, <<<<>>, <<"_">>>> }

CategoryInputs ==
    { p[1] \o x \o p[2] : x \in AlteredAliases, p \in Paddings }
      \cup { <<>>, <<" ", " ">>, <<"b","i","o","l","i","n","k",":","G","e","n","e">>,
             PairwiseGeneToGeneInteraction, CausalGeneToDiseaseAssociation,
             GeneToPhenotypicFeatureAssociation }

EntityIds ==
    { <<"M","O","N","D","O",":","0","0","1","9","3","9","1">>,
      <<"H","G","N","C",":","1","1","9","9","8">> }

CatInit ==
    /\ cval \in CategoryInputs
    /\ cid = <<>>
    /\ cpc = "in"
    /\ cout1 = <<>>
    /\ cout2 = <<>>
    /\ cpath = <<>>
    /\ HttpUnused
    /\ AssocUnused
    /\ ShapeUnused
    /\ HealthUnused
    /\ NormUnused
    /\ ConcUnused
    /\ ConcUnused

CanonOnce ==
    /\ cpc = "in"
    /\ cout1' = canonical_category(cval)
    /\ cpc' = "once"
    /\ UNCHANGED <<cval, cid, cout2, cpath>>
    /\ UNCHANGED notCat

CanonTwice ==
    /\ cpc = "once"
    /\ cout2' = canonical_category(cout1)
    /\ cpc' = "twice"
    /\ UNCHANGED <<cval, cid, cout1, cpath>>
    /\ UNCHANGED notCat

AssocPath ==
    /\ cpc = "in"
    /\ \E entity_id \in EntityIds :
         /\ cid' = entity_id
         /\ cpath' = request_path(entity_id, cval)
    /\ cpc' = "path"
    /\ UNCHANGED <<cval, cout1, cout2>>
    /\ UNCHANGED notCat

CatNext == CanonOnce \/ CanonTwice \/ AssocPath

SpecCat == CatInit /\ [][CatNext]_vars

\* x is the alias a up to letter case, surrounding whitespace, and a space
\* or an underscore in place of a hyphen
SameCharUpTo(c, a) ==
    \/ c = a
    \/ c = upper_char(a)
    \/ a = "-" /\ c \in {" ", "_"}

IsVariantOf(x, a) ==
    \E lead \in 0..Len(x) :
        /\ lead + Len(a) <= Len(x)
        /\ \A k \in 1..lead : x[k] \in Whitespace
        /\ \A k \in 1..Len(a) : SameCharUpTo(x[lead + k], a[k])
        /\ \A k \in (lead + Len(a) + 1)..Len(x) : x[k] \in Whitespace

\* C15: a variant of an alias (letter case, surrounding whitespace, space or
\* underscore for hyphen) maps to the alias's canonical value; a string that
\* is a variant of no alias is returned unchanged; and applying
\* canonical_category to its own result changes nothing.
C15_CanonicalCategory ==
    /\ cpc \in {"once", "twice"} =>
         /\ \A a \in DOMAIN CATEGORY_ALIASES :
               IsVariantOf(cval, a) => cout1 = CATEGORY_ALIASES[a]
         /\ (\A a \in DOMAIN CATEGORY_ALIASES : ~IsVariantOf(cval, a)) =>
               cout1 = cval
    /\ cpc = "twice" => cout2 = cout1

C15_Witness ==
    /\ cpc = "twice"
    /\ cval = <<" ","G","e","n","e","_","d","i","s","e","a","s","e","s">>
    /\ cout1 = CausalGeneToDiseaseAssociation
    /\ cout2 = cout1

\* C16: the path requested is entity/{id}/{category} with both segments
\* percent-encoded, so no ':' of the entity id or of the canonical category
\* is in it raw.
C16_PathPercentEncoded ==
    cpc = "path" => \A i \in 1..Len(cpath) : cpath[i] # ":"

----------------------------------------------------------------------------
(* BiolinkClient.associations: one call against the backend *)

Limits == {-3, 0, 2, 150}
Offsets == {0, 1}
MaxItemsArgs == {VNone} \cup {VInt(k) : k \in 0..MaxMaxItems} \cup {VInt(BulkMaxItems)}
EvidenceMins == {VNone, VInt(0), VInt(5)}
SourcesArgs ==
    {[given |-> FALSE, set |-> {}], [given |-> TRUE, set |-> {}],
     [given |-> TRUE, set |-> {"X"}], [given |-> TRUE, set |-> {"Y", "Z"}]}

\* the entity and the category asked for: an alias variant and a category
\* that is no alias
CallEntityIds == {<<"M", "O", "N", "D", "O", ":", "0", "0", "1", "9", "3", "9", "1">>}
CallCategories ==
    {<<"G", "e", "n", "e", "_", "D", "i", "s", "e", "a", "s", "e", "s">>,
     <<"b", "i", "o", "l", "i", "n", "k", ":", "G", "e", "n", "e">>}

ArgsDomain ==
    [entity_id : CallEntityIds, category : CallCategories,
     limit : Limits, offset : Offsets, max_items : MaxItemsArgs,
     evidence_min : EvidenceMins, sources : SourcesArgs, compact : BOOLEAN]

\* statuses of the BiolinkHTTPError that Http.get may raise to its caller
TransportErrors == {404, 503, 599}

PageRequest(offset, limit, n, ok) ==
    [offset |-> offset, limit |-> limit, n |-> n, ok |-> ok, exc |-> NoExc]

\* line 54 without a try around it: what the call does when Http.get raises
\* e with the rows `its` of the earlier pages accumulated
OnTransportError_Partial(e, its) ==
    IF its = <<>>
    THEN AssocRaises(e)
    ELSE [AssocRaises(e) EXCEPT !.kind = "ret", !.items = its,
                                !.count = Len(its), !.exc = NoExc]
OnTransportError(e, its) == AssocRaises(e)

AssocInit ==
    /\ data \in {Dataset(sd, n) : sd \in 0..(Len(Pool) - 1), n \in 0..MaxRows}
                 \cup {Dataset(0, BulkRows)}
    /\ style \in Styles
    /\ args = NoArgs
    /\ apc = "idle"
    /\ items = <<>>
    /\ seen = 0
    /\ cur_offset = 0
    /\ per_page = 0
    /\ reqs = <<>>
    /\ ares = NoAssocResult
    /\ HttpUnused
    /\ ShapeUnused
    /\ HealthUnused
    /\ NormUnused
    /\ ConcUnused
    /\ CatUnused

\* lines 46-51: the call starts (the large dataset is only paged through with
\* the largest page size)
AssocCall ==
    /\ apc = "idle"
    /\ \E a \in ArgsDomain :
         /\ Len(data) > MaxRows => a.limit >= 100
         /\ args' = a
         /\ items' = <<>>
         /\ seen' = 0
         /\ cur_offset' = a.offset
         /\ per_page' = PerPage(a.limit)
    /\ apc' = "loop"
    /\ UNCHANGED <<data, style, reqs, ares>>
    /\ UNCHANGED notAssoc

\* the rows of the page that answers the next request, lines 54-58
NextRows == ExtractRows(PageOf(data, style, cur_offset, per_page))

\* lines 54-69 when neither stop condition holds: the page is appended and
\* the offset advances
AssocFetchMore ==
    /\ apc = "loop"
    /\ LET rows == NextRows
           items1 == items \o rows
       IN /\ ~StopA(items1, args.max_items)
          /\ ~StopB(rows, per_page)
          /\ items' = items1
          /\ seen' = seen + Len(rows)
          /\ cur_offset' = cur_offset + per_page
          /\ reqs' = Append(reqs, PageRequest(cur_offset, per_page, Len(rows), TRUE))
    /\ UNCHANGED <<data, style, args, apc, per_page, ares>>
    /\ UNCHANGED notAssoc

\* lines 54-83 when a stop condition holds: the loop ends, the filters and
\* the shaping run, and the call returns (or raises out of the shaping)
AssocFetchLast ==
    /\ apc = "loop"
    /\ LET rows == NextRows
           items1 == items \o rows
           items2 == IF StopA(items1, args.max_items)
                     THEN Slice(items1, args.max_items.n)
                     ELSE items1
           res == PostProcess(items2, args)
       IN /\ StopA(items1, args.max_items) \/ StopB(rows, per_page)
          /\ items' = items2
          /\ seen' = seen + Len(rows)
          /\ reqs' = Append(reqs, PageRequest(cur_offset, per_page, Len(rows), TRUE))
          /\ ares' = res
          /\ apc' = IF res.kind = "ret" THEN "returned" ELSE "raised"
    /\ UNCHANGED <<data, style, args, cur_offset, per_page>>
    /\ UNCHANGED notAssoc

\* line 54: Http.get raises, and so does the call
AssocFetchFail ==
    /\ apc = "loop"
    /\ \E st \in TransportErrors :
         LET e == BiolinkHTTPError(st, "err") IN
         /\ ares' = OnTransportError(e, items)
         /\ reqs' = Append(reqs, [PageRequest(cur_offset, per_page, 0, FALSE)
                                     EXCEPT !.exc = e])
         /\ apc' = IF OnTransportError(e, items).kind = "exc"
                   THEN "raised" ELSE "returned"
    /\ UNCHANGED <<data, style, args, items, seen, cur_offset, per_page>>
    /\ UNCHANGED notAssoc

AssocNext == AssocCall \/ AssocFetchMore \/ AssocFetchLast \/ AssocFetchFail

SpecAssoc == AssocInit /\ [][AssocNext]_vars

\* every Http.get the loop awaits returns or raises: a call that is in its
\* loop does not stay suspended on line 54 for ever
AssocFetch == AssocFetchFail \/ AssocFetchMore \/ AssocFetchLast

\* the calls that leave max_items and the two filters unset
UnsetArgs ==
    {a \in ArgsDomain :
        a.max_items = VNone /\ a.evidence_min = VNone /\ ~a.sources.given}

\* lines 46-51: the call starts, max_items unset
AssocCallUnset ==
    /\ apc = "idle"
    /\ \E a \in UnsetArgs :
         /\ Len(data) > MaxRows => a.limit >= 100
         /\ args' = a
         /\ items' = <<>>
         /\ seen' = 0
         /\ cur_offset' = a.offset
         /\ per_page' = PerPage(a.limit)
    /\ apc' = "loop"
    /\ UNCHANGED <<data, style, reqs, ares>>
    /\ UNCHANGED notAssoc

AssocLiveNext == AssocCallUnset \/ AssocFetch

SpecAssocLive == AssocInit /\ [][AssocLiveNext]_vars /\ WF_vars(AssocFetch)

----------------------------------------------------------------------------
(* Two associations calls awaited concurrently on one BiolinkClient. A    *)
(* call runs from one suspension point to the next without interruption:  *)
(* it is suspended only while its request is in flight (http.py line 55). *)

ConcArgs ==
    {[NoArgs EXCEPT !.entity_id = e, !.category = <<"c">>,
                    !.limit = l, !.offset = o, !.max_items = m] :
        e \in {<<"A">>, <<"B">>}, l \in {1, 2}, o \in {0, 1},
        m \in {VNone, VInt(1)}}

Backends ==
    {[p \in Paths |-> IF p = PathA THEN Dataset(0, n) ELSE Dataset(3, m)] :
        n \in 0..MaxConcRows, m \in 0..MaxConcRows}

\* client.py lines 46-51: the locals of a call that has just started
NewTask(a) ==
    [path |-> request_path(a.entity_id, a.category), args |-> a, pc |-> "loop", items |-> <<>>, seen |-> 0,
     cur_offset |-> a.offset, per_page |-> PerPage(a.limit), res |-> NoAssocResult]

ConcInit ==
    /\ tasks = [p \in Calls |-> IdleTask]
    /\ backend \in Backends
    /\ wire = <<>>
    /\ HttpUnused
    /\ AssocUnused
    /\ ShapeUnused
    /\ HealthUnused
    /\ NormUnused
    /\ CatUnused

\* lines 33-51: call p starts
TaskCall(p) ==
    /\ tasks[p].pc = "idle"
    /\ \E a \in ConcArgs :
         tasks' = [tasks EXCEPT ![p] = NewTask(a)]
    /\ UNCHANGED <<backend, wire>>
    /\ UNCHANGED notConc

\* client.py line 54 into http.py lines 48-55: call p takes the session and
\* issues its request, then is suspended
TaskSend(p) ==
    /\ tasks[p].pc = "loop"
    /\ session' = get_session(session)
    /\ opened' = SessionsOpened(session, opened)
    /\ live' = IF Creates(session) THEN live \cup {opened + 1} ELSE live
    /\ wire' = Append(wire, [task |-> p, path |-> tasks[p].path,
                              offset |-> tasks[p].cur_offset,
                              limit |-> tasks[p].per_page])
    /\ tasks' = [tasks EXCEPT ![p].pc = "await"]
    /\ UNCHANGED backend
    /\ UNCHANGED <<retries, backoff_s, hpc, resp, attempt, last_exc, hlog, hres,
                   last_call, backoff_close>>
    /\ UNCHANGED notHttpConc

\* client.py lines 54-83: the page of call p arrives; the call goes round
\* the loop, or leaves it, filters, shapes and returns
TaskRecv(p) ==
    /\ tasks[p].pc = "await"
    /\ LET t == tasks[p]
           rows == ExtractRows(PageOf(backend[t.path], "associations",
                                      t.cur_offset, t.per_page))
           items1 == t.items \o rows
           items2 == IF StopA(items1, t.args.max_items)
                     THEN Slice(items1, t.args.max_items.n)
                     ELSE items1
           res == PostProcess(items2, t.args)
       IN IF StopA(items1, t.args.max_items) \/ StopB(rows, t.per_page)
          THEN tasks' = [tasks EXCEPT ![p].items = items2,
                                      ![p].seen = t.seen + Len(rows),
                                      ![p].res = res,
                                      ![p].pc = IF res.kind = "ret"
                                                THEN "returned" ELSE "raised"]
          ELSE tasks' = [tasks EXCEPT ![p].items = items1,
                                      ![p].seen = t.seen + Len(rows),
                                      ![p].cur_offset = t.cur_offset + t.per_page,
                                      ![p].pc = "loop"]
    /\ UNCHANGED <<backend, wire>>
    /\ UNCHANGED notConc

ConcNext == \E p \in Calls : TaskCall(p) \/ TaskSend(p) \/ TaskRecv(p)

SpecConc == ConcInit /\ [][ConcNext]_vars

\* the requests and the result of a call with arguments a on rows d when
\* it runs alone
RECURSIVE SoloRun(_, _, _, _, _)
SoloRun(d, a, off, its, rq) ==
    LET pp == PerPage(a.limit)
        rows == ExtractRows(PageOf(d, "associations", off, pp))
        its1 == its \o rows
        rq1 == Append(rq, [offset |-> off, limit |-> pp])
    IN IF StopA(its1, a.max_items)
       THEN [reqs |-> rq1, res |-> PostProcess(Slice(its1, a.max_items.n), a)]
       ELSE IF StopB(rows, pp)
       THEN [reqs |-> rq1, res |-> PostProcess(its1, a)]
       ELSE SoloRun(d, a, off + pp, its1, rq1)

Solo(p) == SoloRun(backend[tasks[p].path], tasks[p].args, tasks[p].args.offset, <<>>, <<>>)

\* the requests of call p, in order
WireOf(p) == SelectSeq(wire, LAMBDA r : r.task = p)
RequestsOf(p) ==
    [i \in 1..Len(WireOf(p)) |->
        [offset |-> WireOf(p)[i].offset, limit |-> WireOf(p)[i].limit]]

\* C17: with two associations calls interleaved in any order on one client,
\* each call requests its own path with the request sequence it issues
\* alone and ends with the result it has alone, and the two calls together
\* create exactly one session.
C17_ConcurrentCallsIndependent ==
    /\ \A p \in Calls :
         tasks[p].pc # "idle" =>
            /\ \A i \in 1..Len(WireOf(p)) : WireOf(p)[i].path = tasks[p].path
            /\ Len(RequestsOf(p)) <= Len(Solo(p).reqs)
            /\ RequestsOf(p) = SubSeq(Solo(p).reqs, 1, Len(RequestsOf(p)))
            /\ tasks[p].pc \in {"returned", "raised"} =>
                  /\ RequestsOf(p) = Solo(p).reqs
                  /\ tasks[p].res = Solo(p).res
    /\ opened = (IF wire = <<>> THEN 0 ELSE 1)

C17_Witness ==
    /\ \A p \in Calls : tasks[p].pc = "returned"
    /\ tasks[1].path = tasks[2].path
    /\ tasks[1].res # tasks[2].res
    /\ Len(wire) = 5
    /\ wire[1].task = 1
    /\ wire[2].task = 2
    /\ wire[3].task = 1
    /\ wire[4].task = 2
    /\ wire[5].task = 1
    /\ opened = 1

----------------------------------------------------------------------------
(* Row shaping: associations(compact=True) on a page of one raw row *)

RawRows ==
    [subject : {VNone, VStr("S"), VMap("A", "a"), VMap("A", Null), VMap(Null, "a")},
     predicate : {VNone, VStr("p"), VMap("q", Null), VMap(Null, "l")},
     object : {VNone, VStr("O"), VMap("B", "b")},
     subject_label : {VNone, VStr("top")},
     object_label : {VNone},
     evidence_count : {VNone, VInt(0), VInt(5)},
     aggregator_knowledge_source : {VNone, VStr("X")},
     provided_by : {VNone, VStr("Y")}]

ShapeInit ==
    /\ srow \in RawRows
    /\ spc = "raw"
    /\ sout = [err |-> FALSE, items |-> <<>>]
    /\ HttpUnused
    /\ AssocUnused
    /\ HealthUnused
    /\ NormUnused
    /\ ConcUnused
    /\ CatUnused

\* line 82
ShapeRow ==
    /\ spc = "raw"
    /\ sout' = Shaped(<<srow>>)
    /\ spc' = "done"
    /\ UNCHANGED srow
    /\ UNCHANGED notShape

ShapeNext == ShapeRow

SpecShape == ShapeInit /\ [][ShapeNext]_vars

----------------------------------------------------------------------------
(* Http: properties *)

IsReq(ev) == ev.e = "req"
IsSleep(ev) == ev.e = "sleep"
Requests(log) == SelectSeq(log, IsReq)
Sleeps(log) == SelectSeq(log, IsSleep)
LastOf(seq) == seq[Len(seq)]

\* the request was answered by a 2xx response
ReqOk(ev) == IsReq(ev) /\ ev.x = "http" /\ ev.n >= 200 /\ ev.n < 300
\* the request was answered by a 2xx response whose body arrived
ReqOkRead(ev) == ReqOk(ev) /\ ev.read = "ok"
\* the response arrived but reading its body failed in the network layer
ReqReadFailed(ev) == IsReq(ev) /\ ev.x = "http" /\ ev.read # "ok"
\* the request was answered by one of the five statuses the spec calls retryable
ReqRetryableStatus(ev) ==
    IsReq(ev) /\ ev.x = "http" /\ ev.n \in {429, 500, 502, 503, 504}
\* the request was answered by any other non-2xx status
ReqNonRetryableStatus(ev) ==
    IsReq(ev) /\ ev.x = "http" /\ ~ReqOk(ev) /\ ~ReqRetryableStatus(ev)
\* the request failed transiently: network error or timeout (of the request
\* or of the body read) or retryable status
ReqTransient(ev) ==
    IsReq(ev) /\ (\/ ev.x \in {"ClientError", "TimeoutError"}
                  \/ ReqReadFailed(ev)
                  \/ ReqRetryableStatus(ev))

\* what the spec says get() returns for a body text: the empty mapping,
\* the decoded JSON value, or the text wrapped under "raw"
EmptyMapping == [t |-> "map", size |-> 0, raw |-> ""]
Wrapped(text) == [t |-> "map", size |-> 1, raw |-> text]
ExpectedOf(text) ==
    CASE text = "" -> EmptyMapping
      [] text = "{}" -> EmptyMapping
      [] text = "{\"a\": 1}" -> [t |-> "map", size |-> 1, raw |-> ""]
      [] text = "[1]" -> [t |-> "list", size |-> 1, raw |-> ""]
      [] OTHER -> Wrapped(text)

\* C1 (as claimed): a request answered by a non-retryable status (with a
\* body that arrives and decodes) is the last thing the call does: no sleep
\* and no request follows it, and get() has raised the HTTP error of that
\* status.
C1_NonRetryableRaisesImmediately ==
    \A i \in 1..Len(hlog) :
        (/\ ReqNonRetryableStatus(hlog[i])
         /\ hlog[i].read = "ok"
         /\ hlog[i].text # BadBytes) =>
            /\ i = Len(hlog)
            /\ hpc = "raised"
            /\ hres.kind = "exc"
            /\ hres.exc.type = "BiolinkHTTPError"
            /\ hres.exc.status = hlog[i].n

\* C2 (as claimed): when every attempt of a finished call was answered by a
\* retryable status, the call issued exactly `retries` requests and raised
\* the HTTP error whose status is that of the last attempt.
C2_RetryExhaustion ==
    (/\ hpc = "raised"
     /\ \A i \in 1..Len(hlog) : IsReq(hlog[i]) => ReqRetryableStatus(hlog[i]))
    => /\ Len(Requests(hlog)) = retries
       /\ hres.kind = "exc"
       /\ hres.exc.type = "BiolinkHTTPError"
       /\ retries >= 1 => hres.exc.status = LastOf(Requests(hlog)).n

\* C3 (as claimed): requests and sleeps alternate and the sleep after
\* attempt i lasts backoff_s * i; a finished call never ends on a sleep; and
\* when the attempts before attempt k+1 all failed transiently and attempt
\* k+1 is answered by a 2xx whose body arrives, that attempt is the last
\* thing the call does, after k+1 requests and k sleeps, and get() returns
\* the decoded body of that response.
C3_RetrySuccessAndBackoff ==
    /\ \A i \in 1..Len(hlog) :
          /\ (i % 2 = 1) <=> IsReq(hlog[i])
          /\ IsSleep(hlog[i]) => hlog[i].n = backoff_s * (i \div 2)
    /\ hpc \in {"returned", "raised"} /\ hlog # <<>> => IsReq(LastOf(hlog))
    /\ \A i \in 1..Len(hlog) :
          (/\ ReqOkRead(hlog[i])
           /\ \A j \in 1..(i - 1) : IsReq(hlog[j]) => ReqTransient(hlog[j]))
          => /\ i = Len(hlog)
             /\ Len(Requests(hlog)) = (i + 1) \div 2
             /\ Len(Sleeps(hlog)) = (i - 1) \div 2
             /\ hpc = "returned"
             /\ hres = Returned(ExpectedOf(hlog[i].text))

\* C12: at most one session is open at a time; a get() that takes its
\* session reuses the open one and otherwise creates exactly one new session;
\* close() closes an open session and changes nothing on a transport that
\* was never opened or is already closed, and it never disturbs a get().
C12_SessionLifecycle ==
    [][/\ Cardinality(live) <= 1 /\ Cardinality(live') <= 1
       /\ live' = IF session' = "open" THEN {opened'} ELSE {}
       /\ (session' = "none") <=> (opened' = 0)
       /\ (hpc = "send" /\ hpc' = "wait") =>
             /\ session' = "open"
             /\ IF session = "open"
                THEN opened' = opened /\ live' = live
                ELSE opened' = opened + 1
       /\ last_call' = "close" =>
             /\ session' = IF session = "open" THEN "closed" ELSE session
             /\ opened' = opened
             /\ session # "open" => live' = live
             /\ hpc' = hpc /\ hres' = hres /\ hlog' = hlog /\ attempt' = attempt
      ]_vars

C12_Witness ==
    /\ opened = 2
    /\ session = "open"
    /\ live = {2}
    /\ hpc = "returned"

----------------------------------------------------------------------------
(* associations: properties *)

\* the loop of the call was left by one of its two break statements
LoopDone ==
    apc \in {"returned", "raised"} /\ ares.exc.type # "BiolinkHTTPError"

\* the rows the backend exposes to this call, from the call's offset onwards
Served ==
    IF style = "nonlist" THEN <<>> ELSE SubSeq(data, args.offset + 1, Len(data))

\* min(100, max(1, limit)), the effective page size as the spec states it
EffectivePage ==
    IF args.limit > 100 THEN 100 ELSE IF args.limit < 1 THEN 1 ELSE args.limit

\* what the call returns for the raw rows it keeps
Output(rows) == IF args.compact THEN Shaped(rows).items ELSE rows

\* C4: with max_items unset, the page requests go out in order at offsets
\* offset, offset+p, ...; against a backend serving n full pages and then a
\* short one the loop ends after exactly n+1 requests, and the accumulator is
\* the concatenation of the pages in the order the server returned them.
C4_Pagination ==
    (apc # "idle" /\ args.max_items.t = "none") =>
        LET p == EffectivePage
            n == Len(Served) \div p
        IN /\ \A i \in 1..Len(reqs) :
                 reqs[i].offset = args.offset + (i - 1) * p /\ reqs[i].limit = p
           /\ Len(reqs) <= n + 1
           /\ apc = "loop" => items = SubSeq(Served, 1, Len(reqs) * p)
           /\ LoopDone =>
                 /\ Len(reqs) = n + 1
                 /\ \A i \in 1..n : reqs[i].n = p
                 /\ reqs[n + 1].n < p
                 /\ items = Served

C4_Witness ==
    /\ LoopDone
    /\ args.max_items.t = "none"
    /\ args.offset = 0
    /\ Len(reqs) = 3
    /\ reqs[1].offset = 0 /\ reqs[2].offset = 100 /\ reqs[3].offset = 200
    /\ reqs[1].n = 100 /\ reqs[2].n = 100 /\ reqs[3].n = 37
    /\ Len(items) = 237

\* C5: with max_items = m >= 0, no page is requested after a page fetch has
\* left m rows or more in the accumulator: the loop ends right after the
\* first such fetch, and the accumulator is cut to exactly its first m rows.
C5_StopAtMaxItems ==
    (apc # "idle" /\ args.max_items.t = "int" /\ args.max_items.n >= 0) =>
        LET m == args.max_items.n IN
        /\ (apc = "loop" /\ reqs # <<>>) => Len(items) < m
        /\ LoopDone =>
              /\ Len(items) <= m
              /\ seen >= m => Len(items) = m
              /\ items = SubSeq(Served, 1, IF seen < m THEN seen ELSE m)
              /\ Len(reqs) > 1 => seen - reqs[Len(reqs)].n < m

C5_Witness ==
    /\ apc = "returned"
    /\ args.max_items = VInt(50)
    /\ ~args.compact /\ args.evidence_min.t = "none" /\ ~args.sources.given
    /\ Len(reqs) = 1
    /\ reqs[1].n = 100
    /\ Len(ares.items) = 50 /\ ares.count = 50

\* C6: a finished call has always made its first request; with max_items = 0
\* it makes exactly one, at the given offset, and returns no items and count
\* 0 whatever the page held; so does a call with max_items unset whose first
\* page is empty.
C6_FirstRequestAlways ==
    /\ apc \in {"returned", "raised"} => Len(reqs) >= 1
    /\ (LoopDone /\ (args.max_items = VInt(0)
                      \/ (args.max_items.t = "none" /\ reqs[1].n = 0))) =>
          /\ Len(reqs) = 1
          /\ reqs[1].offset = args.offset
          /\ apc = "returned"
          /\ ares.items = <<>>
          /\ ares.count = 0

C6_Witness ==
    /\ apc = "returned"
    /\ args.max_items = VInt(0)
    /\ Len(reqs) = 1
    /\ reqs[1].n = 2
    /\ ares.items = <<>> /\ ares.count = 0

\* the evidence_min test as the spec states it: a missing count is 0
EvidenceAtLeast(r, t) ==
    IF r.evidence_count.t = "int" THEN r.evidence_count.n >= t ELSE 0 >= t

\* the sources test as the spec states it: the first non-null of the two
\* source fields is a member; a row with neither has none
SourceAmong(r, allowed) ==
    IF r.aggregator_knowledge_source.t # "none"
    THEN r.aggregator_knowledge_source.s \in allowed
    ELSE r.provided_by.t # "none" /\ r.provided_by.s \in allowed

\* the sources test with the resolved source taken as the
\* aggregator_knowledge_source unless that is null or the empty string, and
\* as provided_by otherwise
NonEmptySourceAmong(r, allowed) ==
    IF r.aggregator_knowledge_source.t = "str" /\ r.aggregator_knowledge_source.s # ""
    THEN r.aggregator_knowledge_source.s \in allowed
    ELSE r.provided_by.t = "str" /\ r.provided_by.s \in allowed

\* C9: with evidence_min = t the call returns, in their original order,
\* exactly the accumulated rows whose evidence_count (0 when absent or null)
\* is at least t (further narrowed by the sources filter when that is given).
C9_EvidenceMinFilter ==
    (apc = "returned" /\ args.evidence_min.t = "int") =>
        LET Keep(r) ==
                /\ EvidenceAtLeast(r, args.evidence_min.n)
                /\ (args.sources.given /\ args.sources.set # {})
                      => NonEmptySourceAmong(r, args.sources.set)
        IN /\ ares.items = Output(SelectSeq(items, Keep))
           /\ ares.count = Len(SelectSeq(items, Keep))

C9_Witness ==
    /\ apc = "returned"
    /\ args.evidence_min = VInt(5)
    /\ ~args.sources.given
    /\ ~args.compact
    /\ \E i \in 1..Len(items) : items[i].evidence_count.t = "none"
    /\ \E i \in 1..Len(items) : items[i].evidence_count = VInt(3)
    /\ \E i \in 1..Len(items) : items[i].evidence_count = VInt(7)
    /\ Len(items) = 4
    /\ ares.count = 2

\* C10 (as claimed): with a non-empty set of sources the call returns
\* exactly the rows whose resolved source, the first non-null of
\* aggregator_knowledge_source and provided_by, is in the set, dropping rows
\* with neither source field; with sources absent or empty this filter drops
\* nothing.
C10_SourcesFilterFirstNonNull ==
    apc = "returned" =>
        LET Active == args.sources.given /\ args.sources.set # {}
            Keep(r) ==
                /\ Active => SourceAmong(r, args.sources.set)
                /\ args.evidence_min.t = "int"
                      => EvidenceAtLeast(r, args.evidence_min.n)
        IN ares.items = Output(SelectSeq(items, Keep))

\* C10 (amended): with a non-empty set of sources the call returns exactly
\* the rows whose resolved source is in the set, where the resolved source
\* is aggregator_knowledge_source unless that is null or the empty string
\* and provided_by otherwise; rows with neither source field are dropped;
\* with sources absent or empty this filter drops nothing.
C10_SourcesFilter ==
    apc = "returned" =>
        LET Active == args.sources.given /\ args.sources.set # {}
            Keep(r) ==
                /\ Active => NonEmptySourceAmong(r, args.sources.set)
                /\ args.evidence_min.t = "int"
                      => EvidenceAtLeast(r, args.evidence_min.n)
        IN ares.items = Output(SelectSeq(items, Keep))

\* sources = {"Y", "Z"} over four rows: one with neither source field and
\* one provided by "X" are dropped, one aggregated by "Y" is kept, and the
\* one whose aggregator_knowledge_source is "" and which is provided by "Y"
\* is kept
C10_Witness ==
    /\ apc = "returned"
    /\ args.sources = [given |-> TRUE, set |-> {"Y", "Z"}]
    /\ args.evidence_min.t = "none"
    /\ ~args.compact
    /\ Len(items) = 4
    /\ \E i \in 1..4 : /\ items[i].aggregator_knowledge_source.t = "none"
                        /\ items[i].provided_by.t = "none"
    /\ \E i \in 1..4 : /\ items[i].aggregator_knowledge_source.t = "none"
                        /\ items[i].provided_by = VStr("X")
    /\ \E i \in 1..4 : items[i].aggregator_knowledge_source = VStr("Y")
    /\ \E i \in 1..4 :
          /\ items[i].aggregator_knowledge_source = VStr("")
          /\ items[i].provided_by = VStr("Y")
          /\ \E j \in 1..Len(ares.items) : ares.items[j] = items[i]
    /\ ares.count = 2

\* C11: every page request of a call carries limit = min(100, max(1, limit
\* argument)), the same for all its pages, and a request at a further offset
\* is made only after a page of at least that many rows, exactly that many
\* rows further on.
C11_PageSizeClamp ==
    apc # "idle" =>
        LET p == EffectivePage IN
        /\ p >= 1 /\ p <= 100
        /\ per_page = p
        /\ \A i \in 1..Len(reqs) : reqs[i].limit = p
        /\ \A i \in 1..(Len(reqs) - 1) :
              reqs[i].n >= p /\ reqs[i + 1].offset = reqs[i].offset + p
        /\ reqs # <<>> => reqs[1].offset = args.offset
        /\ apc = "loop" => cur_offset = args.offset + Len(reqs) * p

C11_Witness ==
    /\ apc = "returned"
    /\ args.limit = 150
    /\ Len(reqs) = 3
    /\ reqs[3].limit = 100
    /\ reqs[3].offset = args.offset + 200

----------------------------------------------------------------------------
(* Row shaping: properties *)

\* C7 (as claimed): a row whose subject or object is a plain string id is
\* shaped without raising, with subject_id (object_id) equal to that string;
\* a mapping predicate is shaped to its id and a string predicate to itself.
C7_EveryRowVariantShapes ==
    spc = "done" =>
        /\ (srow.subject.t = "str" \/ srow.object.t = "str") => ~sout.err
        /\ ~sout.err =>
              LET d == sout.items[1] IN
              /\ srow.subject.t = "str" => d.subject_id = srow.subject
              /\ srow.object.t = "str" => d.object_id = srow.object
              /\ (srow.predicate.t = "map" /\ srow.predicate.id # Null)
                    => d.predicate = VStr(srow.predicate.id)
              /\ srow.predicate.t = "str" => d.predicate = srow.predicate

\* C8: a shaped item has only the seven documented keys and no null value;
\* subject {id: "A", label: "a"} with predicate "p" shapes to subject_id "A",
\* subject_label "a", predicate "p".
C8_NoNullInCompactOutput ==
    (spc = "done" /\ ~sout.err) =>
        LET d == sout.items[1] IN
        /\ DOMAIN d \subseteq ShapedKeys
        /\ \A k \in DOMAIN d : d[k].t # "none"
        /\ (srow.subject = VMap("A", "a") /\ srow.predicate = VStr("p")) =>
              /\ {"subject_id", "subject_label", "predicate"} \subseteq DOMAIN d
              /\ d.subject_id = VStr("A")
              /\ d.subject_label = VStr("a")
              /\ d.predicate = VStr("p")

C8_Witness ==
    /\ spc = "done"
    /\ ~sout.err
    /\ srow.subject = VMap("A", "a")
    /\ srow.predicate = VStr("p")
    /\ srow.evidence_count.t = "none"
    /\ DOMAIN sout.items[1] = {"subject_id", "subject_label", "predicate"}

----------------------------------------------------------------------------
\* C18 (as claimed): every request answered by a 2xx is the last thing its
\* call does (no sleep and no request follows), and the call returns the
\* empty mapping, the decoded JSON or the wrapped text; it never raises.
C18_SuccessNeverRaises ==
    \A i \in 1..Len(hlog) :
        ReqOk(hlog[i]) =>
            /\ i = Len(hlog)
            /\ hpc = "returned"
            /\ hres = Returned(ExpectedOf(hlog[i].text))

----------------------------------------------------------------------------
\* with max_items unset: every request but the last was answered by a full
\* page, and once a request is answered by a short page the call is over
StopsAtFirstShortPage ==
    (apc # "idle" /\ args.max_items.t = "none") =>
        /\ \A i \in 1..(Len(reqs) - 1) :
              reqs[i].ok /\ reqs[i].n = EffectivePage
        /\ (reqs # <<>> /\ LastOf(reqs).ok /\ LastOf(reqs).n < EffectivePage) =>
              apc \in {"returned", "raised"}

\* C19: an associations call with max_items unset issues no request after
\* the first page shorter than the effective page size, and against a
\* backend holding finitely many rows, with every get returning or raising,
\* the call eventually returns or raises.
C19_Termination ==
    /\ []StopsAtFirstShortPage
    /\ (apc = "loop" /\ args.max_items.t = "none") ~> (apc \in {"returned", "raised"})

C19_Witness ==
    /\ apc = "returned"
    /\ args.max_items.t = "none"
    /\ Len(reqs) = 3
    /\ reqs[1].n = 2 /\ reqs[2].n = 2 /\ reqs[3].n = 0
    /\ Len(items) = 4

----------------------------------------------------------------------------
\* C20: when Http.get raises on the fetch of a page, the first or a later
\* one, that request is the last one of the call, the call raises the very
\* error the transport raised, and it returns none of the rows of the pages
\* fetched before.
C20_ErrorPropagation ==
    \A i \in 1..Len(reqs) :
        ~reqs[i].ok =>
            /\ i = Len(reqs)
            /\ apc = "raised"
            /\ ares.kind = "exc"
            /\ ares.exc = reqs[i].exc
            /\ ares.exc.type = "BiolinkHTTPError"
            /\ ares.items = <<>>
            /\ ares.count = 0

C20_Witness ==
    /\ apc = "raised"
    /\ Len(reqs) = 3
    /\ reqs[1].ok /\ reqs[2].ok /\ ~reqs[3].ok
    /\ Len(items) = 4
    /\ ares.exc = BiolinkHTTPError(503, "err")
    /\ ares.items = <<>>

----------------------------------------------------------------------------
\* the rows the call has fetched: the first `seen` rows the backend exposes
Fetched == SubSeq(Served, 1, seen)

\* the returned item `out` is the row r as the call hands it out
HandsOut(out, r) ==
    IF args.compact
    THEN ~shape_assoc(r).err /\ out = strip_nones(shape_assoc(r).d)
    ELSE out = r

\* outs[i..] is handed out, in order, from rows among rows[j..]
RECURSIVE FromRows(_, _, _, _)
FromRows(outs, i, rows, j) ==
    IF i > Len(outs) THEN TRUE
    ELSE IF j > Len(rows) THEN FALSE
    ELSE IF HandsOut(outs[i], rows[j]) THEN FromRows(outs, i + 1, rows, j + 1)
    ELSE FromRows(outs, i, rows, j + 1)

\* the page requests of a call as limit, offset and max_items alone fix
\* them, over a backend exposing n rows: the requests from offset off on,
\* with k rows accumulated so far
RECURSIVE RequestsFrom(_, _, _, _, _)
RequestsFrom(n, pp, m, off, k) ==
    LET got == IF n - off > pp THEN pp ELSE IF n - off > 0 THEN n - off ELSE 0
        rq == [offset |-> off, limit |-> pp]
    IN IF (m.t # "none" /\ k + got >= m.n) \/ got < pp
       THEN <<rq>>
       ELSE <<rq>> \o RequestsFrom(n, pp, m, off + pp, k + got)

ExpectedRequests ==
    RequestsFrom(IF style = "nonlist" THEN 0 ELSE Len(data), EffectivePage,
                 args.max_items, args.offset, 0)

\* the canonical form of the requested category
ExpectedCategory ==
    IF \E a \in DOMAIN CATEGORY_ALIASES : IsVariantOf(args.category, a)
    THEN CATEGORY_ALIASES[CHOOSE a \in DOMAIN CATEGORY_ALIASES :
                             IsVariantOf(args.category, a)]
    ELSE args.category

\* C21: every returned mapping has count = length of items, the canonical
\* form of the requested category, the requested entity id, and items
\* handed out in order from the rows fetched; with max_items = m set,
\* count <= m; and the page requests are those that limit, offset and
\* max_items fix, whatever evidence_min, sources and compact are.
C21_ResultSetInvariants ==
    /\ apc = "returned" =>
          /\ ares.count = Len(ares.items)
          /\ ares.category = ExpectedCategory
          /\ ares.entity_id = args.entity_id
          /\ FromRows(ares.items, 1, Fetched, 1)
          /\ args.max_items.t # "none" => ares.count <= args.max_items.n
          /\ Len(reqs) = Len(ExpectedRequests)
    /\ apc # "idle" =>
          /\ Len(reqs) <= Len(ExpectedRequests)
          /\ \A i \in 1..Len(reqs) :
                /\ reqs[i].offset = ExpectedRequests[i].offset
                /\ reqs[i].limit = ExpectedRequests[i].limit

C21_Witness ==
    /\ apc = "returned"
    /\ args.max_items = VInt(2)
    /\ args.evidence_min = VInt(5)
    /\ args.sources.given
    /\ args.compact
    /\ Len(reqs) = 2
    /\ Len(items) = 2
    /\ ares.count = 1
    /\ ares.category = CausalGeneToDiseaseAssociation
    /\ args.category # ares.category

----------------------------------------------------------------------------
\* the request met a failure of the network layer or a timeout: no response
ReqNoResponse(ev) == IsReq(ev) /\ ev.x \in {"ClientError", "TimeoutError"}

\* C22: a get call issues at most `retries` requests; when the last attempt
\* of a call that raised met a network failure or a timeout (of the request
\* or of the body read), the error raised is the HTTP error with status 599
\* whose detail names that exception; and with retries = 0 a call issues no
\* request and raises the 599 error.
C22_BoundedAttemptsAnd599 ==
    /\ attempt <= retries
    /\ Len(Requests(hlog)) <= retries
    /\ (hpc = "raised" /\ hlog # <<>> /\ ReqNoResponse(LastOf(hlog))) =>
          /\ Len(Requests(hlog)) = retries
          /\ hres = Raised(BiolinkHTTPError(599,
                     LastOf(hlog).x \o ": " \o LastOf(hlog).text))
    /\ (hpc = "raised" /\ hlog # <<>> /\ ReqReadFailed(LastOf(hlog))) =>
          /\ Len(Requests(hlog)) = retries
          /\ hres = Raised(BiolinkHTTPError(599,
                     LastOf(hlog).read \o ": " \o LastOf(hlog).text))
    /\ (retries = 0 /\ hpc # "idle") =>
          /\ hlog = <<>>
          /\ hpc = "raised"
          /\ hres.kind = "exc"
          /\ hres.exc.type = "BiolinkHTTPError"
          /\ hres.exc.status = 599
          /\ hres.exc.detail = "NoneType: None"

C22_Witness ==
    /\ hpc = "raised"
    /\ retries = 2
    /\ Len(hlog) = 3
    /\ hlog[1].n = 503
    /\ hlog[3].x = "TimeoutError"
    /\ hres = Raised(BiolinkHTTPError(599, "TimeoutError: "))

----------------------------------------------------------------------------
\* a close() ran to completion during the latest backoff of the current
\* get(), whose next attempt is number `attempt`
ClosedInLastBackoff == backoff_close > 0 /\ backoff_close = attempt - 1

\* C23: a close() that completes while a get() is in a retry backoff leaves
\* the session closed; the next attempt of that get(), finding it closed,
\* creates a fresh session (a second one at least) and runs on it; and when
\* the get() has returned with a session open, that session is the fresh one,
\* which no close() has closed.
C23_CloseDuringBackoff ==
    /\ (hpc = "sleep" /\ last_call = "close") =>
          session = "closed" /\ live = {} /\ backoff_close = attempt
    /\ (ClosedInLastBackoff /\ hpc = "send" /\ last_call = "get") =>
          session = "closed"
    /\ (ClosedInLastBackoff /\ hpc = "wait" /\ last_call = "get") =>
          session = "open" /\ opened >= 2 /\ live = {opened}
    /\ (ClosedInLastBackoff /\ hpc = "returned" /\ session = "open") =>
          opened >= 2 /\ live = {opened}

\* close() completed during the backoff, the get() then succeeded, and the
\* transport is left with an open session that nothing closes
C23_Witness ==
    /\ hpc = "returned"
    /\ ClosedInLastBackoff
    /\ last_call = "get"
    /\ Len(hlog) = 3
    /\ hlog[1].n = 503
    /\ hlog[3].n = 200
    /\ session = "open"
    /\ opened = 2
    /\ live = {2}

====
